---- MODULE Spec2Model ----
\* Model of app.py: the Fernet key lifecycle (load_or_create_key, FERNET), the
\* users table (init_database) and the operator commands display_users,
\* anonymize_users, encrypt_emails, test_email_encryption and
\* decrypt_and_print_emails.  Processes are started one after the other; each
\* start imports the module (which builds FERNET) and then runs commands.
EXTENDS Integers, Sequences, FiniteSets, TLC

VARIABLES
    keyFile,      \* content of FERNET_KEY_PATH: None or the bytes stored there
    keyDir,       \* state of the key file's parent directory
    keyReadable,  \* whether an existing key file can be opened for reading
    tableExists,  \* whether the users table has been created
    db,           \* committed rows of users, in rowid order
    seq,          \* sqlite_sequence of users: the largest id ever handed out
    proc,         \* "none": no process; "ready": module imported, FERNET built
    fernet,       \* key bytes held by the module-level FERNET, or None
    loaded,       \* bytes load_or_create_key returned in the last start, or None
    phase,        \* "idle", or the transform pass whose loop is running
    txn,          \* the rows as seen by the pass's own uncommitted connection
    rows,         \* rows fetched by the pass that are still to be visited
    cmd,          \* the command the process ran last
    out,          \* what that command printed, line by line
    err,          \* the exception that ended the start or the command, or "none"
    stored,       \* history: bytes the creating start left in the key file
    creations,    \* history: how many times a key file was created
    before,       \* history: committed rows when the last pass began
    updated,      \* history: ids of the rows the last pass's UPDATEs changed
    last,         \* history: how the last pass ended
    hist          \* history: per id, the last plaintext email and the passes since

vars == <<keyFile, keyDir, keyReadable, tableExists, db, seq, proc, fernet,
          loaded, phase, txn, rows, cmd, out, err, stored, creations, before,
          updated, last, hist>>

keyVars == <<keyFile, keyDir, keyReadable, stored, creations>>
storeVars == <<tableExists, db, seq>>
passVars == <<phase, txn, rows, before, updated, last, hist>>

\* ---------------------------------------------------------------- bounds

\* Distinct keys Fernet.generate_key can return.
MaxKeys == 2
\* Distinct initialisation vectors an encrypt call can draw (os.urandom).
MaxIV == 1
\* How many encrypt_emails passes may be stacked on one store.
MaxWrap == 2
\* How many times init_database may reseed the table.
MaxInits == 2

\* ---------------------------------------------------------------- strings

Text(chars) == [kind |-> "text", chars |-> chars]

Token(k, iv, inner) == [kind |-> "token", key |-> k, iv |-> iv, inner |-> inner]

AnnaEmail == Text(<<"a","n","n","a","@","t","e","s","t",".","s","e">>)

BoEmail == Text(<<"b","o","@","t","e","s","t",".","s","e">>)

ExampleOrg == <<"@","e","x","a","m","p","l","e",".","o","r","g">>

\* The fixed rows init_database inserts.
SeedUsers ==
    << [name |-> "Anna Andersson", email |-> AnnaEmail],
       [name |-> "Bo Bengtsson", email |-> BoEmail] >>

\* Values fake.name() / fake.email() can return: a short address and one of
\* 33 characters (first_name.last_name@example.org).
FakePersons ==
    { [name |-> "Amy Lee",
       email |-> Text(<<"a","l","e","e">> \o ExampleOrg)],
      [name |-> "Christopher Hernandez",
       email |-> Text(<<"c","h","r","i","s","t","o","p","h","e","r",".",
                        "h","e","r","n","a","n","d","e","z">> \o ExampleOrg)] }

\* Bytes of a Fernet token over n bytes of plaintext: version, timestamp, IV,
\* PKCS7-padded AES-CBC ciphertext, HMAC.
FernetBytes(n) == 1 + 8 + 16 + 16 * ((n \div 16) + 1) + 32

\* Characters of the urlsafe base64 encoding (with padding) of b bytes.
Base64Len(b) == 4 * ((b + 2) \div 3)

RECURSIVE StrLen(_)
\* len(s) of a stored string.
StrLen(v) ==
    IF v.kind = "text" THEN Len(v.chars)
    ELSE Base64Len(FernetBytes(StrLen(v.inner)))

\* "@" in s: the base64 alphabet of a token has no "@".
HasAt(v) == v.kind = "text" /\ \E i \in 1..Len(v.chars) : v.chars[i] = "@"

\* "=" in s: a token ends in base64 padding unless its byte length is a
\* multiple of 3.
HasEq(v) ==
    IF v.kind = "text" THEN \E i \in 1..Len(v.chars) : v.chars[i] = "="
    ELSE FernetBytes(StrLen(v.inner)) % 3 # 0

\* ---------------------------------------------------------------- key lifecycle

\* No file at the key path / no bytes returned / no cipher built.
None == [id |-> 0, len |-> 0 - 1]

\* Length of a key as Fernet.generate_key returns it: urlsafe base64 of 32 bytes.
KeyLen == Base64Len(32)

\* The first n bytes of key k.
Prefix(k, n) == IF n = 0 THEN [id |-> 0, len |-> 0] ELSE [id |-> k, len |-> n]

\* How many bytes of the key f.write(key) gets onto disk before the block ends:
\* all of them, or fewer when the write is cut short.
WriteOutcomes == {0, KeyLen \div 2, KeyLen}

\* load_or_create_key without the os.path.exists branch: every start writes a
\* newly generated key.
LoadOrCreateKeyAlwaysCreates(file, dir, readable, key, written) ==
    [ret |-> Prefix(key, KeyLen), exc |-> "none",
     file |-> Prefix(key, KeyLen), dir |-> "present"]

\* load_or_create_key that passes over a failed write as it passes over a
\* failed makedirs, and returns the key it could not persist.
LoadOrCreateKeyEphemeral(file, dir, readable, key, written) ==
    IF file # None
    THEN IF readable
         THEN [ret |-> file, exc |-> "none", file |-> file, dir |-> dir]
         ELSE [ret |-> None, exc |-> "PermissionError", file |-> file, dir |-> dir]
    ELSE LET dir2 == IF dir = "missing" THEN "present" ELSE dir
         IN  IF dir2 # "present"
             THEN [ret |-> Prefix(key, KeyLen), exc |-> "none",
                   file |-> None, dir |-> dir2]
             ELSE [ret |-> Prefix(key, KeyLen), exc |-> "none",
                   file |-> Prefix(key, written), dir |-> dir2]

\* load_or_create_key(): file, dir and readable describe the key location, key
\* is what Fernet.generate_key() would return and written how far the write gets.
LoadOrCreateKey(file, dir, readable, key, written) ==
    IF file # None
    THEN \* os.path.exists(key_path): read and return the bytes
         IF readable
         THEN [ret |-> file, exc |-> "none", file |-> file, dir |-> dir]
         ELSE [ret |-> None, exc |-> "PermissionError", file |-> file, dir |-> dir]
    ELSE LET \* os.makedirs in try/except: a failure is passed over
             dir2 == IF dir = "missing" THEN "present" ELSE dir
         IN  IF dir2 # "present"
             THEN \* open(key_path, "wb") raises
                  [ret |-> None, exc |-> "OSError", file |-> None, dir |-> dir2]
             ELSE IF written < KeyLen
             THEN [ret |-> None, exc |-> "OSError",
                   file |-> Prefix(key, written), dir |-> dir2]
             ELSE [ret |-> Prefix(key, KeyLen), exc |-> "none",
                   file |-> Prefix(key, KeyLen), dir |-> dir2]

\* Fernet(key) accepts exactly the keys that decode to 32 bytes.
FernetAccepts(bytes) == bytes # None /\ bytes.id > 0 /\ bytes.len = KeyLen

\* A process start: import app runs FERNET = Fernet(load_or_create_key()).
StartProcess ==
    /\ proc = "none"
    /\ \E key \in 1..MaxKeys, written \in WriteOutcomes :
         LET r == LoadOrCreateKey(keyFile, keyDir, keyReadable, key, written)
             up == r.exc = "none" /\ FernetAccepts(r.ret)
             made == keyFile = None /\ r.file # None
         IN  /\ keyFile' = r.file
             /\ keyDir' = r.dir
             /\ loaded' = r.ret
             /\ fernet' = IF up THEN r.ret ELSE None
             /\ proc' = IF up THEN "ready" ELSE "none"
             /\ err' = IF up THEN "none"
                       ELSE IF r.exc # "none" THEN r.exc ELSE "ValueError"
             /\ stored' = IF made THEN r.file ELSE stored
             /\ creations' = IF made THEN creations + 1 ELSE creations
    /\ cmd' = "none"
    /\ out' = <<>>
    /\ UNCHANGED <<keyReadable, storeVars, passVars>>

\* The process ends: the interpreter returns from python -c, or is stopped.
Exit ==
    /\ proc = "ready"
    /\ phase = "idle"
    /\ proc' = "none"
    /\ fernet' = None
    /\ cmd' = "none"
    /\ out' = <<>>
    /\ err' = "none"
    /\ UNCHANGED <<keyVars, storeVars, passVars, loaded>>

\* A command can run in a process that imported the module and has not raised.
CanRun == proc = "ready" /\ phase = "idle" /\ err = "none"

\* ---------------------------------------------------------------- store

\* Seed rows of a table without AUTOINCREMENT: after DELETE the ids start at 1
\* again.
SeedRowsRowid(s) ==
    [i \in 1..Len(SeedUsers) |->
        [id |-> i, name |-> SeedUsers[i].name, email |-> SeedUsers[i].email]]

\* Rows init_database inserts: AUTOINCREMENT continues after sqlite_sequence.
SeedRows(s) ==
    [i \in 1..Len(SeedUsers) |->
        [id |-> s + i, name |-> SeedUsers[i].name, email |-> SeedUsers[i].email]]

\* UPDATE users SET name = ?, email = ? WHERE id = ?
UpdateUser(store, id, name, email) ==
    [i \in 1..Len(store) |->
        IF store[i].id = id
        THEN [id |-> id, name |-> name, email |-> email]
        ELSE store[i]]

\* UPDATE users SET email = ? with the WHERE clause left out.
UpdateEmailNoWhere(store, id, email) ==
    [i \in 1..Len(store) |-> [store[i] EXCEPT !.email = email]]

\* UPDATE users SET email = ? WHERE id = ?
UpdateEmail(store, id, email) ==
    [i \in 1..Len(store) |->
        IF store[i].id = id THEN [store[i] EXCEPT !.email = email] ELSE store[i]]

\* How many rows of store an UPDATE ... WHERE id = ? changes.
Matches(store, id) == Cardinality({i \in 1..Len(store) : store[i].id = id})

\* History kept for a row whose email was just set to plaintext.
Fresh(store) == [i \in 1..Len(store) |-> [id |-> store[i].id, plain |-> store[i].email, wraps |-> 0]]

\* init_database(): create the table, delete every row, insert the seed rows.
InitDatabase ==
    /\ CanRun
    /\ seq < Len(SeedUsers) * MaxInits
    /\ tableExists' = TRUE
    /\ db' = SeedRows(seq)
    /\ seq' = seq + Len(SeedUsers)
    /\ cmd' = "init"
    /\ out' = <<>>
    /\ last' = "none"
    /\ before' = <<>>
    /\ updated' = <<>>
    /\ hist' = Fresh(SeedRows(seq))
    /\ UNCHANGED <<keyVars, proc, fernet, loaded, phase, txn, rows, err>>

\* The lines display_users prints for the rows it selects.
UserLines(store) ==
    [i \in 1..Len(store) |->
        [id |-> store[i].id, name |-> store[i].name, val |-> store[i].email]]

\* display_users(): SELECT id, name, email and print each row.
DisplayUsers ==
    /\ CanRun
    /\ cmd' = "display"
    /\ IF tableExists
       THEN out' = UserLines(db) /\ err' = "none"
       ELSE out' = <<>> /\ err' = "OperationalError"
    /\ UNCHANGED <<keyVars, storeVars, passVars, proc, fernet, loaded>>

\* ---------------------------------------------------------------- cipher

\* What decrypt raises InvalidToken for.
Invalid == [kind |-> "invalid"]

\* An encrypt that leaves a value that is already a token as it is.
FernetEncryptOnce(key, iv, plain) ==
    IF plain.kind = "token" THEN plain ELSE [kind |-> "token", key |-> key.id,
                                             iv |-> iv, inner |-> plain]

\* FERNET.encrypt(email.encode()).decode(): a token over the plaintext under the
\* cipher's key and a fresh IV.
FernetEncrypt(key, iv, plain) == Token(key.id, iv, plain)

\* FERNET.decrypt(token.encode()).decode(): the plaintext of a token made under
\* the cipher's key; anything else fails the format or HMAC check.
FernetDecrypt(key, v) ==
    IF v.kind = "token" /\ v.key = key.id THEN v.inner ELSE Invalid

RECURSIVE Wraps(_)
\* How many tokens are nested around the plaintext of a stored string.
Wraps(v) == IF v.kind = "token" THEN 1 + Wraps(v.inner) ELSE 0

\* ---------------------------------------------------------------- transform passes

\* A statement of the pass raises (or the process is stopped) before the
\* commit: the connection is dropped and its open transaction is rolled back.
PassFails ==
    /\ phase \in {"anon", "enc"}
    /\ phase' = "idle"
    /\ txn' = <<>>
    /\ rows' = <<>>
    /\ err' = "Error"
    /\ last' = "failed"
    /\ UNCHANGED <<keyVars, storeVars, proc, fernet, loaded, cmd, out, before,
                   updated, hist>>

\* anonymize_users(): connect and SELECT id FROM users.
AnonBegin ==
    /\ CanRun
    /\ cmd' = "anonymize"
    /\ out' = <<>>
    /\ IF tableExists
       THEN /\ phase' = "anon"
            /\ rows' = [i \in 1..Len(db) |-> [id |-> db[i].id]]
            /\ txn' = db
            /\ before' = db
            /\ updated' = <<>>
            /\ last' = "running"
            /\ err' = "none"
       ELSE /\ err' = "OperationalError"
            /\ UNCHANGED <<phase, rows, txn, before, updated, last>>
    /\ UNCHANGED <<keyVars, storeVars, proc, fernet, loaded, hist>>

\* One turn of anonymize_users' loop: fake.name(), fake.email(), UPDATE.
AnonStep ==
    /\ phase = "anon"
    /\ rows # <<>>
    /\ \E p \in FakePersons :
         txn' = UpdateUser(txn, Head(rows).id, p.name, p.email)
    /\ updated' = updated \o [j \in 1..Matches(txn, Head(rows).id) |-> Head(rows).id]
    /\ rows' = Tail(rows)
    /\ UNCHANGED <<keyVars, storeVars, proc, fernet, loaded, phase, cmd, out,
                   err, before, last, hist>>

\* The end of anonymize_users: conn.commit(), then display_users().
AnonCommit ==
    /\ phase = "anon"
    /\ rows = <<>>
    /\ db' = txn
    /\ txn' = <<>>
    /\ phase' = "idle"
    /\ last' = "anon_ok"
    /\ hist' = Fresh(txn)
    /\ out' = UserLines(txn)
    /\ UNCHANGED <<keyVars, tableExists, seq, proc, fernet, loaded, rows, cmd,
                   err, before, updated>>

\* encrypt_emails(): connect and SELECT id, email FROM users.
EncBegin ==
    /\ CanRun
    /\ \A i \in 1..Len(db) : Wraps(db[i].email) < MaxWrap
    /\ cmd' = "encrypt"
    /\ out' = <<>>
    /\ IF tableExists
       THEN /\ phase' = "enc"
            /\ rows' = [i \in 1..Len(db) |-> [id |-> db[i].id, email |-> db[i].email]]
            /\ txn' = db
            /\ before' = db
            /\ updated' = <<>>
            /\ last' = "running"
            /\ err' = "none"
       ELSE /\ err' = "OperationalError"
            /\ UNCHANGED <<phase, rows, txn, before, updated, last>>
    /\ UNCHANGED <<keyVars, storeVars, proc, fernet, loaded, hist>>

\* encrypt_emails' loop on a connection in autocommit mode: each UPDATE is
\* committed as it is executed.
EncStepAutocommit ==
    /\ phase = "enc"
    /\ rows # <<>>
    /\ \E iv \in 1..MaxIV :
         txn' = UpdateEmail(txn, Head(rows).id,
                            FernetEncrypt(fernet, iv, Head(rows).email))
    /\ db' = txn'
    /\ updated' = updated \o [j \in 1..Matches(txn, Head(rows).id) |-> Head(rows).id]
    /\ rows' = Tail(rows)
    /\ UNCHANGED <<keyVars, tableExists, seq, proc, fernet, loaded, phase, cmd,
                   out, err, before, last, hist>>

\* One turn of encrypt_emails' loop: encrypt the fetched email, UPDATE.
EncStep ==
    /\ phase = "enc"
    /\ rows # <<>>
    /\ \E iv \in 1..MaxIV :
         txn' = UpdateEmail(txn, Head(rows).id,
                            FernetEncrypt(fernet, iv, Head(rows).email))
    /\ updated' = updated \o [j \in 1..Matches(txn, Head(rows).id) |-> Head(rows).id]
    /\ rows' = Tail(rows)
    /\ UNCHANGED <<keyVars, storeVars, proc, fernet, loaded, phase, cmd, out,
                   err, before, last, hist>>

\* The end of encrypt_emails: conn.commit(), then display_users().
EncCommit ==
    /\ phase = "enc"
    /\ rows = <<>>
    /\ db' = txn
    /\ txn' = <<>>
    /\ phase' = "idle"
    /\ last' = "enc_ok"
    /\ hist' = [i \in 1..Len(hist) |-> [hist[i] EXCEPT !.wraps = @ + 1]]
    /\ out' = UserLines(txn)
    /\ UNCHANGED <<keyVars, tableExists, seq, proc, fernet, loaded, rows, cmd,
                   err, before, updated>>

\* ---------------------------------------------------------------- diagnostics

\* The verdict test_email_encryption prints for one email.
LooksEncrypted(email) ==
    IF HasAt(email) THEN "FAIL (contains @)"
    ELSE IF ~HasEq(email) THEN "FAIL (missing '=')"
    ELSE "OK (looks encrypted)"

\* The lines test_email_encryption prints: one per row, then the overall result
\* (id 0).
TestLines(store) ==
    LET each == [i \in 1..Len(store) |->
                    [id |-> store[i].id, val |-> LooksEncrypted(store[i].email)]]
        all_ok == \A i \in 1..Len(each) : each[i].val = "OK (looks encrypted)"
    IN  Append(each, [id |-> 0,
                      val |-> IF all_ok THEN "Encryption test PASSED."
                              ELSE "Encryption test FAILED."])

\* test_email_encryption()
TestEmailEncryption ==
    /\ CanRun
    /\ cmd' = "test"
    /\ IF tableExists
       THEN out' = TestLines(db) /\ err' = "none"
       ELSE out' = <<>> /\ err' = "OperationalError"
    /\ UNCHANGED <<keyVars, storeVars, passVars, proc, fernet, loaded>>

\* A loop that prints the stored email instead of the decrypted one.
DecryptedLinesRaw(key, store) ==
    [i \in 1..Len(store) |-> [id |-> store[i].id, val |-> store[i].email]]

RECURSIVE DecryptedLines(_, _)
\* The lines decrypt_and_print_emails' loop prints before it ends or decrypt
\* raises.
DecryptedLines(key, store) ==
    IF store = <<>> THEN <<>>
    ELSE LET d == FernetDecrypt(key, Head(store).email)
         IN  IF d.kind = "invalid" THEN <<>>
             ELSE <<[id |-> Head(store).id, val |-> d]>>
                  \o DecryptedLines(key, Tail(store))

\* decrypt_and_print_emails that stores what it decrypted.
DecryptAndPrintEmailsWritesBack ==
    /\ CanRun
    /\ tableExists
    /\ cmd' = "decrypt"
    /\ out' = DecryptedLinesRaw(fernet, db)
    /\ err' = "none"
    /\ db' = [i \in 1..Len(db) |->
                [db[i] EXCEPT !.email = IF FernetDecrypt(fernet, @).kind = "invalid"
                                        THEN @ ELSE FernetDecrypt(fernet, @)]]
    /\ UNCHANGED <<keyVars, tableExists, seq, passVars, proc, fernet, loaded>>

\* decrypt_and_print_emails()
DecryptAndPrintEmails ==
    /\ CanRun
    /\ cmd' = "decrypt"
    /\ IF tableExists
       THEN /\ out' = DecryptedLines(fernet, db)
            /\ err' = IF Len(DecryptedLines(fernet, db)) < Len(db)
                      THEN "InvalidToken" ELSE "none"
       ELSE out' = <<>> /\ err' = "OperationalError"
    /\ UNCHANGED <<keyVars, storeVars, passVars, proc, fernet, loaded>>

Init ==
    /\ keyFile = None
    /\ keyDir \in {"present", "missing", "uncreatable", "readonly"}
    /\ keyReadable \in BOOLEAN
    /\ tableExists = FALSE
    /\ db = <<>>
    /\ seq = 0
    /\ proc = "none"
    /\ fernet = None
    /\ loaded = None
    /\ phase = "idle"
    /\ txn = <<>>
    /\ rows = <<>>
    /\ cmd = "none"
    /\ out = <<>>
    /\ err = "none"
    /\ stored = None
    /\ creations = 0
    /\ before = <<>>
    /\ updated = <<>>
    /\ last = "none"
    /\ hist = <<>>

Next ==
    \/ StartProcess
    \/ Exit
    \/ InitDatabase
    \/ DisplayUsers
    \/ AnonBegin
    \/ AnonStep
    \/ AnonCommit
    \/ EncBegin
    \/ EncStep
    \/ EncCommit
    \/ PassFails
    \/ TestEmailEncryption
    \/ DecryptAndPrintEmails

Spec == Init /\ [][Next]_vars

\* ---------------------------------------------------------------- properties

\* The emails of store are all plaintext / all tokens.
AllText(store) == \A i \in 1..Len(store) : store[i].email.kind = "text"
AllTokens(store) == \A i \in 1..Len(store) : store[i].email.kind = "token"

RECURSIVE Unwrap(_, _, _)
\* n successive decryptions of v under key.
Unwrap(key, v, n) == IF n = 0 THEN v ELSE Unwrap(key, FernetDecrypt(key, v), n - 1)

\* C1: over any sequence of starts at most one key file is created, the file
\* once created always holds the bytes the creating start left in it, and
\* every start that returns from load_or_create_key returns exactly those bytes.
KeyPersistence ==
    /\ creations <= 1
    /\ (creations = 1) <=> (keyFile # None)
    /\ keyFile # None => keyFile = stored
    /\ loaded # None => loaded = stored
    /\ proc = "ready" => creations = 1 /\ fernet = stored

\* A later start (the table was made by an earlier process) loaded the key the
\* first start stored.
KeyReloaded ==
    /\ proc = "ready"
    /\ cmd = "none"
    /\ tableExists
    /\ loaded = stored
    /\ stored.len = KeyLen

\* C2: decrypt_and_print_emails after one encrypt_emails pass over plaintext
\* emails prints, for each id, the email stored just before that pass.
StoreRoundTrip ==
    (cmd = "decrypt" /\ last = "enc_ok" /\ AllText(before)) =>
        /\ err = "none"
        /\ out = [i \in 1..Len(before) |->
                    [id |-> before[i].id, val |-> before[i].email]]

\* Pseudonymized, then encrypted, then decrypted: the synthetic address is shown.
RoundTripShown ==
    /\ cmd = "decrypt"
    /\ last = "enc_ok"
    /\ AllText(before)
    /\ Len(out) = Len(SeedUsers)
    /\ \E p \in FakePersons : out[1].val = p.email
    /\ out[1].val # db[1].email

\* C3: a step that runs decrypt_and_print_emails, whether it prints every row
\* or raises, leaves the rows, the table, the id counter and the key file as
\* they were.
DecryptIsReadOnly ==
    [][(CanRun /\ cmd' = "decrypt") =>
          (db' = db /\ tableExists' = tableExists /\ seq' = seq
           /\ keyFile' = keyFile)]_vars

\* decrypt_and_print_emails printed plaintext while the rows still hold tokens.
DecryptShownNotStored ==
    /\ cmd = "decrypt"
    /\ err = "none"
    /\ out # <<>>
    /\ AllTokens(db)
    /\ \A i \in 1..Len(out) : out[i].val.kind = "text"

\* C4: decrypt_and_print_emails reports on every row of the store: the
\* plaintext where decryption succeeds, a could-not-decrypt marker where it
\* fails, and never stops at a bad row.
DecryptErrorsLocal ==
    (cmd = "decrypt" /\ tableExists) =>
        /\ err = "none"
        /\ Len(out) = Len(db)
        /\ \A i \in 1..Len(out) :
             /\ out[i].id = db[i].id
             /\ out[i].val = FernetDecrypt(fernet, db[i].email)

\* The key location cannot yield a usable key for the start that finds it so.
KeyUnusable ==
    \/ keyFile # None /\ (~keyReadable \/ keyFile.len # KeyLen)
    \/ keyFile = None /\ keyDir \in {"uncreatable", "readonly"}

\* C5: a process holds a cipher only if it is built from the well-formed bytes
\* persisted at the key location, commands run only in such a process, and a
\* start that finds the key unreadable, malformed or unwritable aborts.
KeyErrorsFatal ==
    /\ [](/\ fernet # None => (fernet = keyFile /\ keyFile.len = KeyLen)
          /\ (proc = "ready") <=> (fernet # None)
          /\ cmd # "none" => fernet # None
          /\ phase # "idle" => fernet # None)
    /\ [][(proc = "none" /\ KeyUnusable) =>
             (proc' = "none" /\ fernet' = None /\ err' # "none")]_vars

\* A start aborted on a malformed key file left by a cut-short first write.
StartAbortedOnBadKey ==
    /\ proc = "none"
    /\ err = "ValueError"
    /\ keyFile # None
    /\ keyFile.len < KeyLen
    /\ fernet = None

\* C6: test_email_encryption reports FAIL for every row and FAILED overall on
\* plaintext emails, and OK for every row and PASSED overall after
\* encrypt_emails has run over plaintext emails (no "@", at least one "=").
SelfCheck ==
    (cmd = "test" /\ tableExists) =>
        /\ AllText(db) =>
             /\ \A i \in 1..Len(db) : out[i].val # "OK (looks encrypted)"
             /\ out[Len(out)].val = "Encryption test FAILED."
        /\ (last = "enc_ok" /\ AllText(before)) =>
             /\ \A i \in 1..Len(db) :
                  /\ ~HasAt(db[i].email)
                  /\ HasEq(db[i].email)
                  /\ out[i].val = "OK (looks encrypted)"
             /\ out[Len(out)].val = "Encryption test PASSED."

\* One row changes between plaintext and token in a step.
Becomes(from, to) ==
    \E i \in 1..Len(db), j \in 1..Len(db') :
        /\ db[i].id = db'[j].id
        /\ db[i].email.kind = from
        /\ db'[j].email.kind = to

\* C7 as stated: an email goes from plaintext to token only through
\* encrypt_emails, and a row whose email is a token never holds plaintext
\* again.
EmailStateMachine ==
    [][/\ Becomes("text", "token") => phase = "enc"
       /\ ~Becomes("token", "text")]_vars

\* C7 amended: an email goes from plaintext to token only through
\* encrypt_emails, and from token back to plaintext only through
\* anonymize_users, which overwrites it with a synthetic address.
EmailStateMachineAmended ==
    [][/\ Becomes("text", "token") => phase = "enc"
       /\ Becomes("token", "text") =>
            (phase = "anon" /\ \A j \in 1..Len(db') :
                                 \E p \in FakePersons : db'[j].email = p.email)]_vars

\* anonymize_users has overwritten encrypted emails with plaintext.
AnonymizedOverTokens ==
    /\ last = "anon_ok"
    /\ before # <<>>
    /\ AllTokens(before)
    /\ AllText(db)

\* C8: a completed pass keeps the rows and their ids, updates each id exactly
\* once, in encrypt_emails changes the email alone (to a token over the email
\* the row held) and in anonymize_users the name and the email.
PassVisitsEachOnce ==
    last \in {"anon_ok", "enc_ok"} =>
        /\ Len(db) = Len(before)
        /\ updated = [i \in 1..Len(before) |-> before[i].id]
        /\ \A i \in 1..Len(db) :
             /\ db[i].id = before[i].id
             /\ last = "enc_ok" =>
                  /\ db[i].name = before[i].name
                  /\ db[i].email.kind = "token"
                  /\ db[i].email.inner = before[i].email
             /\ last = "anon_ok" =>
                  \E p \in FakePersons :
                      db[i].name = p.name /\ db[i].email = p.email

\* A completed encrypt_emails pass over the two rows.
PassCompleted ==
    /\ last = "enc_ok"
    /\ Len(db) = Len(SeedUsers)
    /\ Len(updated) = Len(SeedUsers)

\* C9: a row's email after k encrypt_emails passes is a k-fold nested token:
\* fewer than k decryptions yield a token, exactly k yield the plaintext; one
\* decrypt_and_print_emails after a second pass prints the first pass's token.
DoubleWrapping ==
    /\ \A i \in 1..Len(db) :
         /\ hist[i].id = db[i].id
         /\ Wraps(db[i].email) = hist[i].wraps
         /\ Unwrap(stored, db[i].email, hist[i].wraps) = hist[i].plain
         /\ \A n \in 0..(hist[i].wraps - 1) :
              Unwrap(stored, db[i].email, n).kind = "token"
    /\ (cmd = "decrypt" /\ last = "enc_ok" /\ before # <<>> /\ AllTokens(before)) =>
         /\ err = "none"
         /\ \A i \in 1..Len(db) :
              /\ out[i].val = before[i].email
              /\ out[i].val.kind = "token"
              /\ out[i].val # hist[i].plain

\* Two passes, then one decrypt_and_print_emails.
DoubleWrappedShown ==
    /\ cmd = "decrypt"
    /\ last = "enc_ok"
    /\ db # <<>>
    /\ \A i \in 1..Len(db) : hist[i].wraps = 2
    /\ Len(out) = Len(db)

\* C10: while a pass runs, and after a pass has failed, the committed rows
\* are the rows the pass began with.
AbortAll ==
    /\ phase \in {"anon", "enc"} => db = before
    /\ last = "failed" => db = before

\* A pass failed after it had updated some, not all, of its rows.
FailedMidPass ==
    /\ last = "failed"
    /\ updated # <<>>
    /\ Len(updated) < Len(before)
    /\ db = before

====
